---- MODULE Spec2Model ----
(***************************************************************************)
(* Beyond Rig Tools (src/__init__.py): the bone-name mapping resolver      *)
(* (load_json_file, get_bone_mapping), the rig classifier                  *)
(* (detect_rig_type), the structural converter (RigConverter.convert_rig)  *)
(* and the pose aligner (MatchRigPose.execute).                            *)
(*                                                                         *)
(* A Python dict is a sequence of <<key, value>> pairs with distinct keys, *)
(* in insertion order.  The "delete" entry of a dict, whose value is a     *)
(* collection of bone names and not a name, is kept beside the rename      *)
(* pairs as hasDelete / delete.  An exception leaving a function is the    *)
(* field raised of its result ("none": the function returned).             *)
(***************************************************************************)
EXTENDS Integers, Sequences, FiniteSets, TLC

VARIABLES
    file,            \* bone_mappings.json as it lies on disk
    source,          \* get_bone_mapping: the source argument of the last call
    target,          \* get_bone_mapping: the target argument of the last call
    result,          \* get_bone_mapping: what the last call returned or raised
    armature,        \* detect_rig_type: the bone names of the armature
    detected,        \* detect_rig_type: what the last call returned or raised
    edit_bones,      \* convert_rig: the names of armature.edit_bones, in order
    bone_mapping,    \* convert_rig: the bone_mapping argument
    bones_to_delete, \* convert_rig: what is left of the bones_to_delete list
    rename_idx,      \* convert_rig: position of the rename loop in edit_bones
    orig_bones,      \* convert_rig: edit_bones when convert_rig was entered
    cpc,             \* convert_rig: position in the function
    rig,             \* execute: the bone hierarchy and the input transforms
    local,           \* execute: each active pose bone's transform relative to its parent
    matrix,          \* execute: each active pose bone's evaluated armature-space matrix
    stack,           \* execute: the align_bone_chain calls still to be made, next first
    visited,         \* execute: the bones align_single_bone was called on, in order
    outcome,         \* execute: per bone, how align_single_bone ended in this run
    seen_world,      \* execute: per bone, the active_world_matrix it computed
    seen_diff,       \* execute: per bone, the local_diff it computed
    run,             \* execute: 0 before the first run, then the run's number
    ppc,             \* execute: position in the operator
    at_start,        \* execute: local when the run began
    after_first      \* execute: local and matrix when the first run ended

mapVars == <<file, source, target, result>>
detectVars == <<armature, detected>>
convVars == <<edit_bones, bone_mapping, bones_to_delete, rename_idx, orig_bones, cpc>>
poseVars == <<rig, local, matrix, stack, visited, outcome, seen_world, seen_diff, run, ppc,
             at_start, after_first>>
vars == <<file, source, target, result, armature, detected,
          edit_bones, bone_mapping, bones_to_delete, rename_idx, orig_bones, cpc,
          rig, local, matrix, stack, visited, outcome, seen_world, seen_diff, run,
          ppc, at_start, after_first>>

(***************************************************************************)
(* Bounds of the model.                                                    *)
(***************************************************************************)
MaxPairs == 2
MaxRef == 5
MaxBones == 3
MaxRuns == 2

(***************************************************************************)
(* Python dicts.                                                           *)
(***************************************************************************)
DictKeys(d) == {d[i][1] : i \in DOMAIN d}

DictValues(d) == {d[i][2] : i \in DOMAIN d}

DictHas(d, k) == k \in DictKeys(d)

\* d[k], for a key of d
DictGet(d, k) == d[CHOOSE i \in DOMAIN d : d[i][1] = k][2]

\* d[k] = v: an existing key keeps its place and takes the value, a new key
\* goes to the end
DictSet(d, k, v) ==
    IF DictHas(d, k)
    THEN [i \in DOMAIN d |-> IF d[i][1] = k THEN <<k, v>> ELSE d[i]]
    ELSE Append(d, <<k, v>>)

RECURSIVE InvertFrom(_, _, _)
InvertFrom(items, i, acc) ==
    IF i > Len(items) THEN acc
    ELSE InvertFrom(items, i + 1, DictSet(acc, items[i][2], items[i][1]))

\* {v: k for k, v in items if k != "delete"}: the "delete" entry is not among
\* the rename pairs, so the filter is the representation's
InvertItems(items) == InvertFrom(items, 1, <<>>)

\* {k: v for k, v in items if k != "delete"}
CopyItems(items) == items

RECURSIVE ComposeFrom(_, _, _, _)
ComposeFrom(inverted, items, i, acc) ==
    IF i > Len(items) THEN acc
    ELSE IF DictHas(inverted, items[i][1])
         THEN ComposeFrom(inverted, items, i + 1,
                          DictSet(acc, DictGet(inverted, items[i][1]), items[i][2]))
         ELSE ComposeFrom(inverted, items, i + 1, acc)

\* {inverted[k]: v for k, v in items if k in inverted}
ComposeItems(inverted, items) == ComposeFrom(inverted, items, 1, <<>>)

(***************************************************************************)
(* Bone names of the three formats and the contents of bone_mappings.json. *)
(***************************************************************************)
MixamoNames == <<"Hips", "Spine", "Neck", "Head", "LeftArm", "RightArm", "LeftLeg", "RightLeg">>
MoveoneNames == <<"hips", "spine", "neck", "head", "arm_l", "arm_r", "leg_l", "leg_r">>
VroidNames == <<"J_Hips", "J_Spine", "J_Neck", "J_Head", "J_ArmL", "J_ArmR", "J_LegL", "J_LegR">>

\* the first n names of a format
Prefix(names, n) == {names[i] : i \in (1..n) \cap DOMAIN names}

\* the dicts of exactly n rename pairs with distinct keys, in every order
RECURSIVE DictsOfLen(_, _, _)
DictsOfLen(keys, values, n) ==
    IF n = 0 THEN {<<>>}
    ELSE UNION {{Append(d, <<k, v>>) : k \in keys \ DictKeys(d), v \in values}
                : d \in DictsOfLen(keys, values, n - 1)}

DictsUpTo(keys, values, n) == UNION {DictsOfLen(keys, values, m) : m \in 0..n}

EmptyTable == [pairs |-> <<>>, hasDelete |-> FALSE, delete |-> {}]

EmptyData == [hasMM |-> FALSE, mm |-> EmptyTable, hasVR |-> FALSE, vr |-> EmptyTable]

\* a canonical table: its rename pairs and its "delete" entry, if it has one
Tables(keys, values, deleted) ==
    {[pairs |-> d, hasDelete |-> h, delete |-> IF h THEN deleted ELSE {}]
        : d \in DictsUpTo(keys, values, MaxPairs), h \in BOOLEAN}

MapMixamoKeys == {"Hips", "Spine", "Neck"}

\* Move-One names, one of them spelled as a Mixamo name is
MapMoveoneValues == {"hips", "spine", "Hips"}

MapVroidValues == {"J_Hips", "J_Spine"}

MoveoneTables == Tables(MapMixamoKeys, MapMoveoneValues, {"LeftToe_End"})

VroidTables == Tables(MapMixamoKeys, MapVroidValues, {"HeadTop_End"})

\* what json.load can return for a well-formed file: each table is there or not
FileData ==
    {[hasMM |-> TRUE, mm |-> m, hasVR |-> TRUE, vr |-> v]
        : m \in MoveoneTables, v \in VroidTables}
    \cup {[hasMM |-> TRUE, mm |-> m, hasVR |-> FALSE, vr |-> EmptyTable]
        : m \in {t \in MoveoneTables : Len(t.pairs) = 1}}
    \cup {[hasMM |-> FALSE, mm |-> EmptyTable, hasVR |-> TRUE, vr |-> v]
        : v \in {t \in VroidTables : Len(t.pairs) = 1}}

Files ==
    {[disk |-> "ok", data |-> d] : d \in FileData}
    \cup {[disk |-> "malformed", data |-> EmptyData],
          [disk |-> "missing", data |-> EmptyData]}

SourceFormats == {"MIXAMO", "MOVEONE", "VROID", "UNKNOWN"}

TargetFormats == {"MIXAMO", "MOVEONE", "VROID", "NONE"}

Taxonomies == {"MIXAMO", "MOVEONE", "VROID"}

(***************************************************************************)
(* load_json_file and get_bone_mapping.                                    *)
(***************************************************************************)
\* open() of a missing file raises FileNotFoundError, which no except clause
\* catches; json.JSONDecodeError is caught and {} returned
load_json_file(f) ==
    IF f.disk = "missing" THEN [raised |-> "FileNotFoundError", data |-> EmptyData]
    ELSE IF f.disk = "malformed" THEN [raised |-> "none", data |-> EmptyData]
    ELSE [raised |-> "none", data |-> f.data]

Raise(e) == [raised |-> e, pairs |-> <<>>, hasDelete |-> FALSE, delete |-> {}]

Unbound == [raised |-> "none", bound |-> FALSE, pairs |-> <<>>,
            hasDelete |-> FALSE, delete |-> {}]

Bound(pairs, hasDelete, delete) ==
    [raised |-> "none", bound |-> TRUE, pairs |-> pairs,
     hasDelete |-> hasDelete, delete |-> delete]

KeyError == [raised |-> "KeyError", bound |-> FALSE, pairs |-> <<>>,
             hasDelete |-> FALSE, delete |-> {}]

\* lines 41-84: the if/elif chain that assigns (or does not assign) mapping
SelectMapping(mappings, src, tgt) ==
    IF src = "MIXAMO" THEN
        IF tgt = "MOVEONE" THEN
            IF ~mappings.hasMM THEN KeyError
            ELSE Bound(mappings.mm.pairs, mappings.mm.hasDelete, mappings.mm.delete)
        ELSE IF tgt = "VROID" THEN
            IF ~mappings.hasVR THEN KeyError
            ELSE Bound(mappings.vr.pairs, mappings.vr.hasDelete, mappings.vr.delete)
        ELSE Unbound
    ELSE IF tgt = "MIXAMO" THEN
        IF src = "MOVEONE" THEN
            IF ~mappings.hasMM THEN KeyError
            ELSE Bound(InvertItems(mappings.mm.pairs), FALSE, {})
        ELSE IF src = "VROID" THEN
            IF ~mappings.hasVR THEN KeyError
            ELSE Bound(InvertItems(mappings.vr.pairs), FALSE, {})
        ELSE Unbound
    ELSE IF src = "MOVEONE" /\ tgt = "VROID" THEN
        IF ~mappings.hasMM \/ ~mappings.hasVR THEN KeyError
        ELSE LET mixamo_to_moveone == InvertItems(mappings.mm.pairs)
                 mixamo_to_vroid == CopyItems(mappings.vr.pairs)
             IN  Bound(ComposeItems(mixamo_to_moveone, mixamo_to_vroid), FALSE, {})
    ELSE IF src = "VROID" /\ tgt = "MOVEONE" THEN
        IF ~mappings.hasVR \/ ~mappings.hasMM THEN KeyError
        ELSE LET mixamo_to_vroid == InvertItems(mappings.vr.pairs)
                 mixamo_to_moveone == CopyItems(mappings.mm.pairs)
             IN  Bound(ComposeItems(mixamo_to_vroid, mixamo_to_moveone), FALSE, {})
    ELSE Bound(<<>>, FALSE, {})

\* lines 86-88: mapping["delete"] is set from mixamo_vroid_mapping, when that
\* table is there and has the entry
AttachDelete(mappings, mapping) ==
    IF mappings.hasVR /\ mappings.vr.hasDelete
    THEN [raised |-> "none", pairs |-> mapping.pairs,
          hasDelete |-> TRUE, delete |-> mappings.vr.delete]
    ELSE [raised |-> "none", pairs |-> mapping.pairs,
          hasDelete |-> mapping.hasDelete, delete |-> mapping.delete]

get_bone_mapping(f, src, tgt) ==
    LET loaded == load_json_file(f)
    IN  IF loaded.raised # "none" THEN Raise(loaded.raised)
        ELSE LET mapping == SelectMapping(loaded.data, src, tgt)
             IN  IF mapping.raised # "none" THEN Raise(mapping.raised)
                 ELSE IF ~mapping.bound THEN Raise("UnboundLocalError")
                 ELSE AttachDelete(loaded.data, mapping)

(***************************************************************************)
(* Values of the variables of the components a specification leaves alone. *)
(***************************************************************************)
NotCalled == [raised |-> "not called", pairs |-> <<>>, hasDelete |-> FALSE, delete |-> {}]

IdleMap ==
    /\ file = [disk |-> "missing", data |-> EmptyData]
    /\ source = "NONE"
    /\ target = "NONE"
    /\ result = NotCalled

IdleDetect ==
    /\ armature = {}
    /\ detected = "not called"

IdleConv ==
    /\ edit_bones = <<>>
    /\ bone_mapping = NotCalled
    /\ bones_to_delete = <<>>
    /\ rename_idx = 0
    /\ orig_bones = <<>>
    /\ cpc = "idle"

IdlePose ==
    /\ rig = <<>>
    /\ local = <<>>
    /\ matrix = <<>>
    /\ stack = <<>>
    /\ visited = <<>>
    /\ outcome = <<>>
    /\ seen_world = <<>>
    /\ seen_diff = <<>>
    /\ run = 0
    /\ ppc = "idle"
    /\ at_start = <<>>
    /\ after_first = <<>>

(***************************************************************************)
(* The mapping resolver: a file on disk, and calls of get_bone_mapping.    *)
(***************************************************************************)
InitMap ==
    /\ file \in Files
    /\ source = "NONE"
    /\ target = "NONE"
    /\ result = NotCalled
    /\ IdleDetect /\ IdleConv /\ IdlePose

GetBoneMapping(src, tgt) ==
    /\ source' = src
    /\ target' = tgt
    /\ result' = get_bone_mapping(file, src, tgt)
    /\ UNCHANGED <<file, detectVars, convVars, poseVars>>

NextMap == \E src \in SourceFormats, tgt \in TargetFormats : GetBoneMapping(src, tgt)

SpecMap == InitMap /\ [][NextMap]_vars

Called == result.raised # "not called"

BothTables == file.disk = "ok" /\ file.data.hasMM /\ file.data.hasVR

\* the pivot (Mixamo) names that are rename keys of both canonical tables
CommonPivots == DictKeys(file.data.mm.pairs) \cap DictKeys(file.data.vr.pairs)

\* the name of pivot name p in a format
NameIn(format, p) ==
    IF format = "MOVEONE" THEN DictGet(file.data.mm.pairs, p)
    ELSE IF format = "VROID" THEN DictGet(file.data.vr.pairs, p)
    ELSE p

\* C1: for MOVEONE->VROID and VROID->MOVEONE the result of get_bone_mapping is
\* the composition through MIXAMO: it returns without error, it maps the
\* source-format name of every pivot name that is a rename key of both tables
\* to that pivot name's target-format name, and it has no other rename entry.
C1_ComposedThroughPivot ==
    (/\ Called
     /\ BothTables
     /\ <<source, target>> \in {<<"MOVEONE", "VROID">>, <<"VROID", "MOVEONE">>})
    => /\ result.raised = "none"
       /\ \A p \in CommonPivots :
            /\ DictHas(result.pairs, NameIn(source, p))
            /\ DictGet(result.pairs, NameIn(source, p)) = NameIn(target, p)
       /\ DictKeys(result.pairs) = {NameIn(source, p) : p \in CommonPivots}

\* C2: get_bone_mapping(X, X) returns, without an exception, a mapping with no
\* rename entry, for each of the three formats X; and so does a call whose
\* source is UNKNOWN or whose target is NONE.
C2_SameFormatIsEmpty ==
    (/\ Called
     /\ BothTables
     /\ \/ source = target /\ source \in Taxonomies
        \/ source = "UNKNOWN"
        \/ target = "NONE")
    => /\ result.raised = "none"
       /\ result.pairs = <<>>

\* no two rename keys of d share a value
UniqueValues(d) == Cardinality(DictValues(d)) = Len(d)

\* C3: for distinct formats X and Y, the mapping of (Y, X) takes the value of
\* every rename key k of the mapping of (X, Y) back to k.  The tables' keys
\* are unique; so are, here, their values: a table that gives two names the
\* same value has no inverse.
C3_RoundTrip ==
    (/\ Called
     /\ BothTables
     /\ UniqueValues(file.data.mm.pairs) /\ UniqueValues(file.data.vr.pairs)
     /\ source \in Taxonomies /\ target \in Taxonomies /\ source # target
     /\ result.raised = "none")
    => LET back == get_bone_mapping(file, target, source)
       IN  /\ back.raised = "none"
           /\ \A k \in DictKeys(result.pairs) :
                /\ DictHas(back.pairs, DictGet(result.pairs, k))
                /\ DictGet(back.pairs, DictGet(result.pairs, k)) = k

\* C9: whenever get_bone_mapping returns, the "delete" entry of its result is
\* the "delete" entry of mixamo_vroid_mapping, whatever the pair and whatever
\* "delete" entry mixamo_moveone_mapping has; the result has no "delete" entry
\* when mixamo_vroid_mapping has none.
C9_DeleteFromVroidTable ==
    (Called /\ BothTables /\ result.raised = "none")
    => /\ result.hasDelete = file.data.vr.hasDelete
       /\ result.hasDelete => result.delete = file.data.vr.delete

\* C10: with a malformed or missing mapping file get_bone_mapping raises
\* nothing and returns an empty mapping, for every pair.
C10_BadFileIsEmptyMapping ==
    (Called /\ file.disk \in {"malformed", "missing"})
    => /\ result.raised = "none"
       /\ result.pairs = <<>>
       /\ ~result.hasDelete

(***************************************************************************)
(* detect_rig_type.                                                        *)
(***************************************************************************)
\* the threshold 0.8 of lines 112, 114 and 116, as ThresholdNum / ThresholdDen
ThresholdNum == 8
ThresholdDen == 10

\* the comparison written >= instead of >
ExceedsOrEquals(bone_names, bones) ==
    ThresholdDen * Cardinality(bone_names \cap bones) >= ThresholdNum * Cardinality(bones)

\* len(bone_names.intersection(bones)) / len(bones) > 0.8, for len(bones) > 0
Exceeds(bone_names, bones) ==
    ThresholdDen * Cardinality(bone_names \cap bones) > ThresholdNum * Cardinality(bones)

\* lines 112-119: the if/elif chain over the three ratios
RigTypeOf(bone_names, mixamo_bones, moveone_bones, vroid_bones) ==
    IF Exceeds(bone_names, mixamo_bones) THEN "MIXAMO"
    ELSE IF Exceeds(bone_names, moveone_bones) THEN "MOVEONE"
    ELSE IF Exceeds(bone_names, vroid_bones) THEN "VROID"
    ELSE "UNKNOWN"

detect_rig_type(f, bone_names) ==
    LET loaded == load_json_file(f)
        mappings == loaded.data
    IN  IF loaded.raised # "none" THEN loaded.raised
        ELSE IF ~mappings.hasMM THEN "KeyError"
        ELSE LET mixamo_bones == DictKeys(mappings.mm.pairs)
                 moveone_bones == DictValues(mappings.mm.pairs)
             IN  IF ~mappings.hasVR THEN "KeyError"
                 ELSE LET vroid_bones == DictValues(mappings.vr.pairs)
                      IN  IF mixamo_bones = {} \/ moveone_bones = {} \/ vroid_bones = {}
                          THEN "ZeroDivisionError"
                          ELSE RigTypeOf(bone_names, mixamo_bones, moveone_bones,
                                         vroid_bones)

\* the table of n rename pairs that gives the i-th key the i-th value or, when
\* shared, gives the first two keys the same value
RefTable(keys, values, n, shared) ==
    [pairs |-> [i \in 1..(IF n <= Len(keys) THEN n ELSE Len(keys)) |->
                    <<keys[i], values[IF shared /\ i = 1 THEN 2 ELSE i]>>],
     hasDelete |-> TRUE, delete |-> {"LeftToe_End"}]

DetectFiles ==
    {[disk |-> "ok",
      data |-> [hasMM |-> TRUE, mm |-> RefTable(MixamoNames, MoveoneNames, k, sh),
                hasVR |-> TRUE, vr |-> RefTable(MixamoNames, VroidNames, l, FALSE)]]
        : k \in 0..MaxRef, l \in 0..MaxRef, sh \in BOOLEAN}
    \cup {[disk |-> "ok",
           data |-> [hasMM |-> TRUE, mm |-> RefTable(MixamoNames, MoveoneNames, 1, FALSE),
                     hasVR |-> FALSE, vr |-> EmptyTable]],
          [disk |-> "malformed", data |-> EmptyData],
          [disk |-> "missing", data |-> EmptyData]}

\* bone-name sets: some names of each format, with or without the first
\* Mixamo name, and a bone no format knows
Armatures ==
    {((Prefix(MixamoNames, a) \ (IF drop THEN {MixamoNames[1]} ELSE {}))
        \cup Prefix(MoveoneNames, b) \cup Prefix(VroidNames, c) \cup {"Tail"})
        : a \in 0..MaxRef, b \in 0..MaxRef, c \in 0..MaxRef, drop \in BOOLEAN}

InitDetect ==
    /\ file \in DetectFiles
    /\ source = "NONE"
    /\ target = "NONE"
    /\ result = NotCalled
    /\ armature \in Armatures
    /\ detected = "not called"
    /\ IdleConv /\ IdlePose

DetectRigType ==
    /\ detected' = detect_rig_type(file, armature)
    /\ UNCHANGED <<mapVars, armature, convVars, poseVars>>

NextDetect == DetectRigType

SpecDetect == InitDetect /\ [][NextDetect]_vars

\* the reference bone-name set of a format, from the canonical tables
ReferenceSet(format) ==
    IF format = "MIXAMO" THEN DictKeys(file.data.mm.pairs)
    ELSE IF format = "MOVEONE" THEN DictValues(file.data.mm.pairs)
    ELSE DictValues(file.data.vr.pairs)

\* 5 * overlap > 4 * size: the overlap ratio is strictly above 0.8
Qualifies(format) ==
    5 * Cardinality(armature \cap ReferenceSet(format)) > 4 * Cardinality(ReferenceSet(format))

Priority == <<"MIXAMO", "MOVEONE", "VROID">>

RatiosDefined ==
    /\ file.disk = "ok" /\ file.data.hasMM /\ file.data.hasVR
    /\ \A i \in 1..3 : ReferenceSet(Priority[i]) # {}

\* C8: detect_rig_type returns the first format, in the order MIXAMO, MOVEONE,
\* VROID, whose overlap ratio with its reference set is strictly above 0.8, and
\* UNKNOWN when no ratio is (a ratio of exactly 0.8 does not qualify); a
\* bone-name set that holds the whole Mixamo reference set is MIXAMO.
C8_FirstAboveThreshold ==
    (detected # "not called" /\ RatiosDefined)
    => /\ \A i \in 1..3 :
            (Qualifies(Priority[i]) /\ \A j \in 1..(i - 1) : ~Qualifies(Priority[j]))
            => detected = Priority[i]
       /\ (\A i \in 1..3 : ~Qualifies(Priority[i])) => detected = "UNKNOWN"
       /\ ReferenceSet("MIXAMO") \subseteq armature => detected = "MIXAMO"

\* C8's case: the Mixamo ratio is exactly 0.8 and the two other formats both
\* qualify, and the call returned MOVEONE
C8_Witness ==
    /\ RatiosDefined
    /\ 5 * Cardinality(armature \cap ReferenceSet("MIXAMO"))
         = 4 * Cardinality(ReferenceSet("MIXAMO"))
    /\ Qualifies("MOVEONE") /\ Qualifies("VROID")
    /\ detected = "MOVEONE"

(***************************************************************************)
(* RigConverter.convert_rig.  A bone of armature.edit_bones is its place   *)
(* in the armature when convert_rig was entered (id) and its name.         *)
(***************************************************************************)
\* key in bone_mapping
MappingHas(mapping, key) ==
    DictHas(mapping.pairs, key) \/ (key = "delete" /\ mapping.hasDelete)

\* line 151: bone_mapping.get("delete", {})
DeleteBones(mapping) == IF mapping.hasDelete THEN mapping.delete ELSE {}

\* lines 159-161: [bone.name for bone in armature.edit_bones if bone.name in delete_bones]
BonesToDelete(bones, mapping) ==
    LET keep == SelectSeq(bones, LAMBDA b : b.name \in DeleteBones(mapping))
    IN  [i \in DOMAIN keep |-> keep[i].name]

\* lines 165-167: armature.edit_bones.get(bone_name), and its removal if found
RemoveBone(bones, bone_name) ==
    IF \E i \in DOMAIN bones : bones[i].name = bone_name
    THEN LET at == CHOOSE i \in DOMAIN bones :
                       /\ bones[i].name = bone_name
                       /\ \A j \in 1..(i - 1) : bones[j].name # bone_name
         IN  [i \in 1..(Len(bones) - 1) |-> IF i < at THEN bones[i] ELSE bones[i + 1]]
    ELSE bones

\* the mapped name looked up in bone_mapping once more
NewNameFollowed(name, mapping) ==
    IF DictHas(mapping.pairs, name)
    THEN IF DictHas(mapping.pairs, DictGet(mapping.pairs, name))
         THEN DictGet(mapping.pairs, DictGet(mapping.pairs, name))
         ELSE DictGet(mapping.pairs, name)
    ELSE name

\* lines 172-175: the name the rename loop leaves a bone of this name with
NewName(name, mapping) ==
    IF MappingHas(mapping, name) /\ name # "delete"
    THEN DictGet(mapping.pairs, name)
    ELSE name

ConvBoneNames == {"Hips", "LeftUpLeg", "DELETE_ME", "delete"}

ConvKeys == {"Hips", "LeftUpLeg", "hips"}

ConvValues == {"hips", "LeftUpLeg", "DELETE_ME"}

\* the armatures of exactly n bones with distinct names, in every order
RECURSIVE SkeletonsOfLen(_)
SkeletonsOfLen(n) ==
    IF n = 0 THEN {<<>>}
    ELSE UNION {{Append(sk, [id |-> n, name |-> nm])
                    : nm \in ConvBoneNames \ {sk[i].name : i \in DOMAIN sk}}
                : sk \in SkeletonsOfLen(n - 1)}

Skeletons == UNION {SkeletonsOfLen(n) : n \in 0..MaxBones}

ConvMappings ==
    {[raised |-> "none", pairs |-> d, hasDelete |-> FALSE, delete |-> {}]
        : d \in DictsUpTo(ConvKeys, ConvValues, MaxPairs)}
    \cup {[raised |-> "none", pairs |-> d, hasDelete |-> TRUE, delete |-> del]
        : d \in DictsUpTo(ConvKeys, ConvValues, MaxPairs),
          del \in {{"DELETE_ME"}, {"DELETE_ME", "Hips"}}}

InitConv ==
    /\ edit_bones \in Skeletons
    /\ bone_mapping \in ConvMappings
    /\ bones_to_delete = <<>>
    /\ rename_idx = 0
    /\ orig_bones = edit_bones
    /\ cpc = "start"
    /\ IdleMap /\ IdleDetect /\ IdlePose

\* lines 148-162: enter edit mode, list the bones to delete
ListBonesToDelete ==
    /\ cpc = "start"
    /\ bones_to_delete' = BonesToDelete(edit_bones, bone_mapping)
    /\ cpc' = "delete"
    /\ UNCHANGED <<edit_bones, bone_mapping, rename_idx, orig_bones,
                   mapVars, detectVars, poseVars>>

\* lines 164-168: one turn of the deletion loop
DeleteBone ==
    /\ cpc = "delete"
    /\ bones_to_delete # <<>>
    /\ edit_bones' = RemoveBone(edit_bones, Head(bones_to_delete))
    /\ bones_to_delete' = Tail(bones_to_delete)
    /\ UNCHANGED <<bone_mapping, rename_idx, orig_bones, cpc,
                   mapVars, detectVars, poseVars>>

\* line 171: the deletion loop is over, the rename loop starts
StartRenaming ==
    /\ cpc = "delete"
    /\ bones_to_delete = <<>>
    /\ rename_idx' = 1
    /\ cpc' = "rename"
    /\ UNCHANGED <<edit_bones, bone_mapping, bones_to_delete, orig_bones,
                   mapVars, detectVars, poseVars>>

\* lines 171-175: one turn of the rename loop
RenameBone ==
    /\ cpc = "rename"
    /\ rename_idx <= Len(edit_bones)
    /\ edit_bones' = [edit_bones EXCEPT
            ![rename_idx].name = NewName(edit_bones[rename_idx].name, bone_mapping)]
    /\ rename_idx' = rename_idx + 1
    /\ UNCHANGED <<bone_mapping, bones_to_delete, orig_bones, cpc,
                   mapVars, detectVars, poseVars>>

\* line 177: the rename loop is over, back to object mode
FinishConvert ==
    /\ cpc = "rename"
    /\ rename_idx > Len(edit_bones)
    /\ cpc' = "done"
    /\ UNCHANGED <<edit_bones, bone_mapping, bones_to_delete, rename_idx, orig_bones,
                   mapVars, detectVars, poseVars>>

NextConv ==
    \/ ListBonesToDelete
    \/ DeleteBone
    \/ StartRenaming
    \/ RenameBone
    \/ FinishConvert

SpecConv == InitConv /\ [][NextConv]_vars

BoneNameSet(bones) == {bones[i].name : i \in DOMAIN bones}

\* mapping['delete'], empty when the mapping has no such entry
DeletionSet == IF bone_mapping.hasDelete THEN bone_mapping.delete ELSE {}

\* rename(n) of the claim
Renamed(n) ==
    IF n # "delete" /\ DictHas(bone_mapping.pairs, n)
    THEN DictGet(bone_mapping.pairs, n)
    ELSE n

\* C4: after convert_rig the bone names are exactly the rename(n) of the
\* original names n outside mapping['delete'], one bone for each such n, each
\* having kept its identity; no bone is ever created; and no bone is renamed
\* before the deletion pass has removed every bone it is to remove.
C4_DeleteThenRename ==
    /\ cpc = "done" =>
        /\ BoneNameSet(edit_bones)
             = {Renamed(n) : n \in BoneNameSet(orig_bones) \ DeletionSet}
        /\ {edit_bones[i].id : i \in DOMAIN edit_bones}
             = {b \in DOMAIN orig_bones : orig_bones[b].name \notin DeletionSet}
        /\ \A i \in DOMAIN edit_bones :
             edit_bones[i].name = Renamed(orig_bones[edit_bones[i].id].name)
    /\ Len(edit_bones) <= Len(orig_bones)
    /\ \A i \in DOMAIN edit_bones : edit_bones[i].id \in DOMAIN orig_bones
    /\ cpc \in {"start", "delete"} =>
        \A i \in DOMAIN edit_bones : edit_bones[i].name = orig_bones[edit_bones[i].id].name
    /\ cpc \in {"rename", "done"} =>
        /\ bones_to_delete = <<>>
        /\ \A i \in DOMAIN edit_bones :
             orig_bones[edit_bones[i].id].name \notin DeletionSet

\* C4's case: the armature {Hips, LeftUpLeg, DELETE_ME} converted with
\* {"Hips": "hips", "delete": {DELETE_ME}} is {hips, LeftUpLeg}
C4_Witness ==
    /\ cpc = "done"
    /\ BoneNameSet(orig_bones) = {"Hips", "LeftUpLeg", "DELETE_ME"}
    /\ bone_mapping.pairs = <<<<"Hips", "hips">>>>
    /\ bone_mapping.hasDelete /\ bone_mapping.delete = {"DELETE_ME"}
    /\ BoneNameSet(edit_bones) = {"hips", "LeftUpLeg"}

(***************************************************************************)
(* MatchRigPose.execute.  A transform is the homogeneous matrix            *)
(* [[a, b], [0, 1]] of the map x |-> a * x + b: a is the linear part (its  *)
(* determinant), b the translation.  a = 0 is a matrix without inverse;    *)
(* the matrices with a = -1 do not commute with the translations.          *)
(***************************************************************************)
Identity == [a |-> 1, b |-> 0]

\* m @ n
Mul(m, n) == [a |-> m.a * n.a, b |-> m.a * n.b + m.b]

\* whether m.inverted() returns; it raises ValueError otherwise
Invertible(m) == m.a # 0

\* m.inverted(), for a = 1 or a = -1
Inverted(m) == [a |-> m.a, b |-> 0 - (m.a * m.b)]

\* m.translation += offset
Translated(m, offset) == [a |-> m.a, b |-> m.b + offset]

\* the armature-space matrix of pose bone i as the dependency graph evaluates
\* it: the parent's matrix by the bone's own transform
RECURSIVE PoseMatrix(_, _, _)
PoseMatrix(loc, parent, i) ==
    IF parent[i] = 0 THEN loc[i]
    ELSE Mul(PoseMatrix(loc, parent, parent[i]), loc[i])

\* an evaluation that refreshes the bone written and no other bone
UpdateWrittenBoneOnly(loc, old, parent, bone) ==
    [i \in DOMAIN loc |-> IF i = bone THEN PoseMatrix(loc, parent, i) ELSE old[i]]

\* line 273: context.view_layer.update() evaluates every pose bone's matrix
ViewLayerUpdate(loc, old, parent, bone) ==
    [i \in DOMAIN loc |-> PoseMatrix(loc, parent, i)]

\* line 255: the assignment to pose_bone.matrix stores the matrix relative to
\* the parent's evaluated matrix
SetPoseMatrix(loc, mat, parent, bone, m) ==
    [loc EXCEPT ![bone] = IF parent[bone] = 0 THEN m
                          ELSE Mul(Inverted(mat[parent[bone]]), m)]

\* lines 214-216
ArmatureOffset(r) == r.active_world.b - r.source_world.b

\* lines 238 and 242: the source bone's world matrix, moved by the offset
SourceWorldMatrix(r, bone) ==
    Translated(Mul(r.source_world, r.source_matrix[bone]), ArmatureOffset(r))

\* line 239
ActiveWorldMatrix(r, mat, bone) == Mul(r.active_world, mat[bone])

\* the two factors in the other order
WorldDiffSwapped(source_world_matrix, active_world_matrix) ==
    Mul(Inverted(active_world_matrix), source_world_matrix)

\* line 245
WorldDiff(source_world_matrix, active_world_matrix) ==
    Mul(source_world_matrix, Inverted(active_world_matrix))

\* lines 248-252
LocalDiff(r, world_diff) ==
    Mul(Mul(Inverted(r.active_world), world_diff), r.active_world)

\* lines 219-224: the bone is in both armatures
InBoth(r, bone) == bone \in r.in_source

\* lines 245 and 249: one of the two inverted() raises
AlignRaises(r, mat, bone) ==
    \/ ~Invertible(ActiveWorldMatrix(r, mat, bone))
    \/ ~Invertible(r.active_world)

\* bone.children, in the armature's order
Children(parent, bone) ==
    SelectSeq([i \in DOMAIN parent |-> i], LAMBDA c : parent[c] = bone)

\* line 287: the bones without parent
RootBones(parent) == Children(parent, 0)

\* a traversal that leaves the subtree of a bone whose alignment failed
CallsSkippingFailedSubtree(calls, parent, bone, failed) ==
    IF failed THEN Tail(calls) ELSE Children(parent, bone) \o Tail(calls)

\* lines 282-283: align_bone_chain(child) for every child, whatever
\* align_single_bone did, before the calls that were already waiting
CallsAfter(calls, parent, bone, failed) == Children(parent, bone) \o Tail(calls)

\* the hierarchies of n bones: parent[i] is 0 for a root bone, and a bone
\* comes after its parent in the armature
Forests(n) == {p \in [1..n -> 0..(n - 1)] : \A i \in 1..n : p[i] < i}

\* transforms of a pose bone relative to its parent: a translation, a
\* reflection, and a bone scaled to nothing
LocalChoices == {[a |-> 1, b |-> 1], [a |-> -1, b |-> 0], [a |-> 0, b |-> 0]}

\* the source armature's pose: the armature-space matrix of bone i, which is
\* without inverse for the bone flat (if any)
SourcePose(n, flat) ==
    [i \in 1..n |-> [a |-> IF i = flat THEN 0 ELSE IF i % 2 = 1 THEN -1 ELSE 1,
                     b |-> i + 1]]

\* matrix_world of the active and of the source object: the same origin, 5
\* apart, the active object mirrored, the active object scaled to nothing
WorldPairs ==
    {<<[a |-> 1, b |-> 0], [a |-> 1, b |-> 0]>>,
     <<[a |-> 1, b |-> 5], [a |-> 1, b |-> 0]>>,
     <<[a |-> -1, b |-> 2], [a |-> 1, b |-> -1]>>,
     <<[a |-> 0, b |-> 1], [a |-> 1, b |-> 0]>>}

\* what differs between the armatures: at most one bone the source armature
\* lacks, or at most one bone whose source matrix is without inverse
SourceVariants(n) ==
    {[absent |-> x, flat |-> 0] : x \in 0..n} \cup {[absent |-> 0, flat |-> y] : y \in 1..n}

\* the two armatures of a run: n bones with hierarchy p and transforms l
RigOf(n, p, l, w, v) ==
    [parent |-> p,
     rest |-> l,
     in_source |-> (1..n) \ {v.absent},
     source_matrix |-> SourcePose(n, v.flat),
     active_world |-> w[1],
     source_world |-> w[2]]

Bones == DOMAIN rig.parent

NoMatrix == [a |-> 0, b |-> 0]

InitPose ==
    /\ \E n \in 1..MaxBones :
         \E p \in Forests(n), l \in [1..n -> LocalChoices], w \in WorldPairs,
            v \in SourceVariants(n) :
             rig = RigOf(n, p, l, w, v)
    /\ local = rig.rest
    /\ matrix = [i \in DOMAIN rig.parent |-> PoseMatrix(rig.rest, rig.parent, i)]
    /\ stack = <<>>
    /\ visited = <<>>
    /\ outcome = [i \in DOMAIN rig.parent |-> "pending"]
    /\ seen_world = [i \in DOMAIN rig.parent |-> NoMatrix]
    /\ seen_diff = [i \in DOMAIN rig.parent |-> NoMatrix]
    /\ run = 0
    /\ ppc = "ready"
    /\ at_start = rig.rest
    /\ after_first = [local |-> rig.rest, matrix |-> matrix]
    /\ IdleMap /\ IdleDetect /\ IdleConv

\* lines 193-216 and 285-288: execute is entered, align_armature lists the roots
StartExecute ==
    /\ ppc \in {"ready", "finished"}
    /\ run < MaxRuns
    /\ run' = run + 1
    /\ ppc' = "aligning"
    /\ stack' = RootBones(rig.parent)
    /\ visited' = <<>>
    /\ outcome' = [i \in Bones |-> "pending"]
    /\ seen_world' = [i \in Bones |-> NoMatrix]
    /\ seen_diff' = [i \in Bones |-> NoMatrix]
    /\ at_start' = local
    /\ UNCHANGED <<rig, local, matrix, after_first, mapVars, detectVars, convVars>>

\* lines 278-283 with lines 218-276: the next align_bone_chain call;
\* align_single_bone returns early, raises inside its try or overwrites the
\* bone's matrix, and the bone's children are called next
AlignBoneChain ==
    /\ ppc = "aligning"
    /\ stack # <<>>
    /\ LET bone == Head(stack)
           source_world_matrix == SourceWorldMatrix(rig, bone)
           active_world_matrix == ActiveWorldMatrix(rig, matrix, bone)
           world_diff == WorldDiff(source_world_matrix, active_world_matrix)
           local_diff == LocalDiff(rig, world_diff)
           written == SetPoseMatrix(local, matrix, rig.parent, bone,
                                    Mul(local_diff, matrix[bone]))
       IN  /\ visited' = Append(visited, bone)
           /\ IF ~InBoth(rig, bone) THEN
                  /\ outcome' = [outcome EXCEPT ![bone] = "skipped"]
                  /\ UNCHANGED <<local, matrix, seen_world, seen_diff>>
                  /\ stack' = CallsAfter(stack, rig.parent, bone, FALSE)
              ELSE IF AlignRaises(rig, matrix, bone) THEN
                  /\ outcome' = [outcome EXCEPT ![bone] = "failed"]
                  /\ seen_world' = [seen_world EXCEPT ![bone] = active_world_matrix]
                  /\ UNCHANGED <<local, matrix, seen_diff>>
                  /\ stack' = CallsAfter(stack, rig.parent, bone, TRUE)
              ELSE
                  /\ outcome' = [outcome EXCEPT ![bone] = "aligned"]
                  /\ seen_world' = [seen_world EXCEPT ![bone] = active_world_matrix]
                  /\ seen_diff' = [seen_diff EXCEPT ![bone] = local_diff]
                  /\ local' = written
                  /\ matrix' = ViewLayerUpdate(written, matrix, rig.parent, bone)
                  /\ stack' = CallsAfter(stack, rig.parent, bone, FALSE)
    /\ UNCHANGED <<rig, run, ppc, at_start, after_first, mapVars, detectVars, convVars>>

\* lines 294-300: every call has returned
FinishExecute ==
    /\ ppc = "aligning"
    /\ stack = <<>>
    /\ ppc' = "finished"
    /\ after_first' = IF run = 1 THEN [local |-> local, matrix |-> matrix]
                      ELSE after_first
    /\ UNCHANGED <<rig, local, matrix, stack, visited, outcome, seen_world, seen_diff,
                   run, at_start, mapVars, detectVars, convVars>>

NextPose ==
    \/ StartExecute
    \/ AlignBoneChain
    \/ FinishExecute

SpecPose == InitPose /\ [][NextPose]_vars

\* the bones of the trees rooted at the bones of a list, each tree in
\* pre-order: a bone, then the trees of its children
RECURSIVE PreOrderOfTrees(_, _)
PreOrderOfTrees(parent, roots) ==
    IF roots = <<>> THEN <<>>
    ELSE <<Head(roots)>>
         \o PreOrderOfTrees(parent, Children(parent, Head(roots)))
         \o PreOrderOfTrees(parent, Tail(roots))

PreOrder == PreOrderOfTrees(rig.parent, RootBones(rig.parent))

\* whether bone b is above bone c in the hierarchy
RECURSIVE IsAbove(_, _, _)
IsAbove(parent, b, c) ==
    /\ parent[c] # 0
    /\ (parent[c] = b \/ IsAbove(parent, b, parent[c]))

\* the world matrix the alignment aims bone b at: the source bone's, moved by
\* the offset between the two objects
Target(b) ==
    [a |-> rig.source_world.a * rig.source_matrix[b].a,
     b |-> rig.source_world.a * rig.source_matrix[b].b + rig.source_world.b
             + (rig.active_world.b - rig.source_world.b)]

\* the world matrix bone b had before any run
RestWorld(b) == Mul(rig.active_world, PoseMatrix(rig.rest, rig.parent, b))

VisitedSet == {visited[i] : i \in DOMAIN visited}

Computed(b) == outcome[b] \in {"aligned", "failed"}

\* C5: a run visits the bones in pre-order from each root, every bone of the
\* active armature exactly once and after its parent; and the
\* active_world_matrix computed for a child is composed from its parent's
\* matrix as this run left it: for a parent the run aligned, from the
\* parent's target, not from where the parent was.
C5_ParentFirstAndOverwritten ==
    /\ Len(visited) <= Len(PreOrder)
    /\ visited = SubSeq(PreOrder, 1, Len(visited))
    /\ \A i, j \in DOMAIN visited : visited[i] = visited[j] => i = j
    /\ ppc = "finished" => VisitedSet = Bones
    /\ \A i \in DOMAIN visited :
         rig.parent[visited[i]] # 0
         => \E j \in 1..(i - 1) : visited[j] = rig.parent[visited[i]]
    /\ \A c \in Bones :
         (Computed(c) /\ rig.parent[c] # 0)
         => /\ seen_world[c]
                 = Mul(rig.active_world, Mul(matrix[rig.parent[c]], at_start[c]))
            /\ outcome[rig.parent[c]] = "aligned"
                 => seen_world[c] = Mul(Target(rig.parent[c]), at_start[c])

\* C5's case: the first run has ended on three bones or more, it moved a
\* parent to a world matrix other than the one it had, and then aligned a
\* child of it
C5_Witness ==
    /\ run = 1 /\ ppc = "finished"
    /\ Len(visited) >= 3
    /\ \E c \in Bones :
         /\ rig.parent[c] # 0
         /\ outcome[rig.parent[c]] = "aligned"
         /\ outcome[c] = "aligned"
         /\ Target(rig.parent[c]) # RestWorld(rig.parent[c])
         /\ seen_world[c] # RestWorld(c)

\* C6 as claimed: a failure of align_single_bone leaves the bone's local
\* transform unchanged, no bone of the failed bone's subtree is visited or
\* modified, and the bones that are aligned end on their targets.
C6_FailedSubtreeNotVisited ==
    /\ \A b \in Bones :
         outcome[b] = "failed"
         => /\ local[b] = at_start[b]
            /\ \A c \in Bones :
                 IsAbove(rig.parent, b, c)
                 => (c \notin VisitedSet /\ local[c] = at_start[c])
    /\ \A b \in Bones :
         outcome[b] = "aligned" => Mul(rig.active_world, matrix[b]) = Target(b)

\* C6, amended: a bone fails when its world matrix has no inverse; the failure
\* leaves its local transform unchanged; the traversal goes on, into the
\* failed bone's subtree as well, so that the run ends with every bone
\* visited; no bone of that subtree is modified (its world matrix, composed
\* from the failed bone's, has no inverse either); and every bone of both
\* armatures whose world matrix had an inverse, sibling or not, ends on its
\* target.
C6_FailureIsLocal ==
    /\ \A b \in Bones :
         outcome[b] = "failed"
         => /\ ~Invertible(seen_world[b])
            /\ local[b] = at_start[b]
            /\ \A c \in Bones :
                 IsAbove(rig.parent, b, c)
                 => (outcome[c] # "aligned" /\ local[c] = at_start[c])
    /\ \A b \in Bones :
         outcome[b] = "aligned"
         => /\ Invertible(seen_world[b])
            /\ Mul(rig.active_world, matrix[b]) = Target(b)
    /\ ppc = "finished"
         => /\ VisitedSet = Bones
            /\ \A b \in Bones :
                 outcome[b] = (IF b \notin rig.in_source THEN "skipped"
                               ELSE IF Invertible(seen_world[b]) THEN "aligned"
                               ELSE "failed")

\* C6's case: a run has ended in which a bone failed, a child of it was
\* visited and failed too, and a bone outside the failed bone's subtree was
\* aligned after the failure
C6_Witness ==
    /\ ppc = "finished"
    /\ \E i, j, k \in DOMAIN visited :
         /\ i < j /\ j < k
         /\ outcome[visited[i]] = "failed"
         /\ rig.parent[visited[j]] = visited[i]
         /\ outcome[visited[j]] = "failed"
         /\ ~IsAbove(rig.parent, visited[i], visited[k])
         /\ outcome[visited[k]] = "aligned"

\* C7: a second run, right after the first, leaves every bone of the active
\* armature with the transform the first run left it (at every step of the
\* run, not only at its end), and every local_diff it computes is the
\* identity.
C7_SecondRunChangesNothing ==
    run >= 2
    => /\ local = after_first.local
       /\ matrix = after_first.matrix
       /\ \A b \in Bones : outcome[b] = "aligned" => seen_diff[b] = Identity

\* C7's case: the second run has ended, it aligned two bones or more, one of
\* them a child, and the first run had changed the pose
C7_Witness ==
    /\ run = 2 /\ ppc = "finished"
    /\ after_first.local # rig.rest
    /\ \E b, c \in Bones :
         /\ rig.parent[c] = b
         /\ outcome[b] = "aligned" /\ outcome[c] = "aligned"

====
